---- MODULE Spec2Model ----
(***************************************************************************)
(* Model of backend/peer.go: a libp2p chat peer.  main() bootstraps a host *)
(* (key, host, stream handler), selects an optional target peer, runs the  *)
(* chat loop and finally parks on select{}.  handleStream runs once per    *)
(* inbound stream, concurrently with main.  Streams written by main are    *)
(* read by the handler of the same program running at the target peer.     *)
(***************************************************************************)
EXTENDS Integers, Sequences, FiniteSets, TLC

(* ------------------------------ bounds --------------------------------- *)
\* number of chat-loop iterations (calls of scanner.Scan in the loop)
MaxScans == 2
\* total number of streams (opened by main or by remote peers) in one run
MaxStreams == 2

(* ----------------------------- constants ------------------------------- *)
ChatProtocol == "/chat/1.0.0"
OtherProtocol == "/other/1.0.0"
Protocols == {ChatProtocol, OtherProtocol}

Self == "self"
Peers == {"B", "C"}
Hosts == {Self} \cup Peers

NoPeer == [ID |-> "nil", Addrs |-> {}]

\* Text is a sequence of symbols: a white-space character, or a run of
\* characters that are not white space (a word such as "exit" or "EXIT").
NL == "\n"
CR == "\r"
Space == {" ", "\t", NL, CR}

ExitSentinel == <<"exit">>

(* ------------------------- standard input ------------------------------ *)
\* lines of standard input as bufio.Scanner finds them between two '\n'
RawLines ==
  { <<>>,
    <<"exit">>,
    <<" ", "exit", "\t">>,
    <<"exit", CR>>,
    <<"EXIT">>,
    <<"exit", " ", "now">> }

\* bufio.ScanLines drops one trailing '\r' of the line
dropCR(data) ==
  IF Len(data) > 0 /\ data[Len(data)] = CR
  THEN SubSeq(data, 1, Len(data) - 1)
  ELSE data

\* an end of input that is read as the exit line
ScanTextExitAtEOF(eof, raw) == IF eof THEN ExitSentinel ELSE dropCR(raw)

\* scanner.Scan(); scanner.Text(): the token of a line, "" at end of input
ScanText(eof, raw) == IF eof THEN <<>> ELSE dropCR(raw)

RECURSIVE TrimLeft(_)
TrimLeft(s) ==
  IF s = <<>> THEN s
  ELSE IF Head(s) \in Space THEN TrimLeft(Tail(s)) ELSE s

RECURSIVE TrimRight(_)
TrimRight(s) ==
  IF s = <<>> THEN s
  ELSE IF s[Len(s)] \in Space THEN TrimRight(SubSeq(s, 1, Len(s) - 1)) ELSE s

\* strings.TrimSpace
TrimSpace(s) == TrimRight(TrimLeft(s))

\* the comparison without strings.TrimSpace
IsExitUntrimmed(msg) == msg = ExitSentinel

\* line 90: strings.TrimSpace(msg) == "exit"
IsExit(msg) == TrimSpace(msg) = ExitSentinel

(* --------------------------- multiaddrs -------------------------------- *)
\* An address string is the sequence of its '/'-separated segments; a
\* well-formed one starts with '/', so its first segment is empty.  <<>> is
\* the empty string.
TargetAddrs ==
  { <<>>,
    <<"", "invalid", "multiaddr">>,
    <<"garbage">>,
    <<"", "ip4", "127.0.0.1", "tcp", "1234">>,
    <<"", "ip4", "127.0.0.1", "tcp", "1234", "p2p", "B">>,
    <<"", "ip4", "127.0.0.1", "tcp", "1234", "p2p", "nobody">>,
    <<"", "p2p", "C">> }

KnownProtos == {"ip4", "tcp", "p2p"}

ValidValue(proto, val) ==
  CASE proto = "ip4" -> val \in {"127.0.0.1"}
    [] proto = "tcp" -> val \in {"1234"}
    [] proto = "p2p" -> val \in Peers
    [] OTHER -> FALSE

BadAddr == <<[proto |-> "error", val |-> ""]>>

RECURSIVE ParseComponents(_)
ParseComponents(segs) ==
  IF segs = <<>> THEN <<>>
  ELSE IF Len(segs) < 2 \/ segs[1] \notin KnownProtos
            \/ ~ValidValue(segs[1], segs[2])
       THEN BadAddr
       ELSE LET rest == ParseComponents(SubSeq(segs, 3, Len(segs)))
            IN IF rest = BadAddr THEN BadAddr
               ELSE <<[proto |-> segs[1], val |-> segs[2]]>> \o rest

\* ma.NewMultiaddr: the components of the address, or an error
NewMultiaddr(str) ==
  IF str = <<>> \/ str[1] # "" \/ Len(str) = 1
  THEN [err |-> TRUE, maddr |-> <<>>]
  ELSE LET comps == ParseComponents(Tail(str))
       IN IF comps = BadAddr THEN [err |-> TRUE, maddr |-> <<>>]
          ELSE [err |-> FALSE, maddr |-> comps]

\* peer.AddrInfoFromP2pAddr: splits the trailing /p2p/<id> component off
AddrInfoFromP2pAddr(maddr) ==
  IF maddr = <<>> \/ maddr[Len(maddr)].proto # "p2p"
  THEN [err |-> TRUE, info |-> NoPeer]
  ELSE LET transport == SubSeq(maddr, 1, Len(maddr) - 1)
       IN [err |-> FALSE,
           info |-> [ID |-> maddr[Len(maddr)].val,
                     Addrs |-> IF transport = <<>> THEN {} ELSE {transport}]]

(* ------------------------------ state ---------------------------------- *)
VARIABLES
  pc,         \* position of main
  priv,       \* the identity key has been generated
  listening,  \* the libp2p host exists and accepts connections
  handlers,   \* protocol ids with a registered stream handler
  stdinEOF,   \* standard input has ended
  scans,      \* calls of scanner.Scan made by the chat loop
  targetAddr, \* the target line read from standard input
  peerInfo,   \* the peer target, NoPeer when nil
  msg,        \* the line of the current iteration
  cur,        \* stream of the current iteration (0 when none)
  streams,    \* every stream of the run, in the order they were opened
  netlog,     \* calls main made to the networking library, in order
  console     \* what main printed on standard output, in order

vars == <<pc, priv, listening, handlers, stdinEOF, scans, targetAddr,
          peerInfo, msg, cur, streams, netlog, console>>

mainVars == <<pc, priv, listening, handlers, stdinEOF, scans, targetAddr,
              peerInfo, msg, cur, netlog, console>>

Alive == pc \notin {"exited", "panicked"}

\* the streams that are left when main moves to position p: the end of the
\* process ends its handlers and closes its streams
StreamsAt(p) == IF p \in {"exited", "panicked"} THEN <<>> ELSE streams

\* fmt.Print* of main: the texts are appended to its output
Say(txts) == console \o txts

Init ==
  /\ pc = "genkey"
  /\ priv = FALSE
  /\ listening = FALSE
  /\ handlers = {}
  /\ stdinEOF = FALSE
  /\ scans = 0
  /\ targetAddr = <<>>
  /\ peerInfo = NoPeer
  /\ msg = <<>>
  /\ cur = 0
  /\ streams = <<>>
  /\ netlog = <<>>
  /\ console = <<>>

(* --------------------------- bootstrap --------------------------------- *)
\* crypto.GenerateEd25519Key; panic on error
GenerateKey(ok) ==
  /\ pc = "genkey"
  /\ IF ok THEN pc' = "newhost" /\ priv' = TRUE
           ELSE pc' = "panicked" /\ priv' = FALSE
  /\ UNCHANGED <<listening, handlers, stdinEOF, scans, targetAddr, peerInfo,
                 msg, cur, streams, netlog, console>>

\* libp2p.New(libp2p.Identity(priv)); panic on error
NewHost(ok) ==
  /\ pc = "newhost"
  /\ IF ok THEN pc' = "sethandler" /\ listening' = TRUE
           ELSE pc' = "panicked" /\ listening' = FALSE
  /\ UNCHANGED <<priv, handlers, stdinEOF, scans, targetAddr, peerInfo,
                 msg, cur, streams, netlog, console>>

\* host.SetStreamHandler and the start-up banner
SetStreamHandler ==
  /\ pc = "sethandler"
  /\ handlers' = handlers \cup {ChatProtocol}
  /\ console' = Say(<<"started">>)
  /\ pc' = "target"
  /\ UNCHANGED <<priv, listening, stdinEOF, scans, targetAddr, peerInfo,
                 msg, cur, streams, netlog>>

(* ------------------------ target selection ----------------------------- *)
\* a call of the networking library: its name, the stream it is made on
\* (0 when none), its argument and whether it succeeded
Call(op, s, arg, ok) == [op |-> op, s |-> s, arg |-> arg, ok |-> ok]

\* a parse error that is only reported
OnParseErrorContinue == "loop"

\* lines 66-68 and 71-73: a target that cannot be parsed ends main
OnParseError == "exited"

\* a connection error that is only reported
OnConnectErrorContinue == "loop"

\* lines 78-81: a failed connection ends main
OnConnectError == "exited"

\* a target line that is parsed even when it is empty
TargetGivenAlways(text) == TRUE

\* line 64: targetAddr != ""
TargetGiven(text) == text # <<>>

\* lines 58-75: read the target line, parse it, keep the peer target
ReadTarget(eof, line) ==
  /\ pc = "target"
  /\ LET text == IF eof THEN <<>> ELSE line
         m == NewMultiaddr(text)
         a == AddrInfoFromP2pAddr(m.maddr)
     IN /\ targetAddr' = text
        /\ stdinEOF' = eof
        /\ IF ~TargetGiven(text)
           THEN /\ pc' = "loop"
                /\ console' = Say(<<"asktarget">>)
                /\ UNCHANGED <<peerInfo, netlog>>
           ELSE IF m.err
           THEN /\ pc' = OnParseError
                /\ console' = Say(<<"asktarget", "invalid">>)
                /\ netlog' = Append(netlog, Call("NewMultiaddr", 0, text, FALSE))
                /\ UNCHANGED peerInfo
           ELSE IF a.err
           THEN /\ pc' = OnParseError
                /\ console' = Say(<<"asktarget", "parsefail">>)
                /\ netlog' = netlog
                               \o <<Call("NewMultiaddr", 0, text, TRUE),
                                    Call("AddrInfoFromP2pAddr", 0, text, FALSE)>>
                /\ UNCHANGED peerInfo
           ELSE /\ pc' = "connect"
                /\ peerInfo' = a.info
                /\ console' = Say(<<"asktarget">>)
                /\ netlog' = netlog
                               \o <<Call("NewMultiaddr", 0, text, TRUE),
                                    Call("AddrInfoFromP2pAddr", 0, text, TRUE)>>
  /\ streams' = StreamsAt(pc')
  /\ UNCHANGED <<priv, listening, handlers, scans, msg, cur>>

\* lines 78-82: host.Connect; a peer without any address cannot be dialled
Connect(ok) ==
  /\ pc = "connect"
  /\ ok => peerInfo.Addrs # {}
  /\ netlog' = Append(netlog, Call("Connect", 0, peerInfo.ID, ok))
  /\ IF ok THEN pc' = "loop" /\ console' = Say(<<"connected">>)
           ELSE pc' = OnConnectError /\ console' = Say(<<"connfail">>)
  /\ streams' = StreamsAt(pc')
  /\ UNCHANGED <<priv, listening, handlers, stdinEOF, scans, targetAddr,
                 peerInfo, msg, cur>>

(* ------------------------------ chat loop ------------------------------ *)
\* the send path without its nil guard
HasPeerUnguarded(info) == TRUE

\* line 93: peerInfo != nil
HasPeer(info) == info # NoPeer

\* a failed NewStream that ends main
OnOpenErrorReturn == "exited"

\* a failed NewStream that goes back to the target prompt
OnOpenErrorReselect == "target"

\* lines 95-98: a failed NewStream is reported and the loop continues
OnOpenError == "loop"

\* the line written without its newline
PayloadNoNewline(m) == m

\* line 99: []byte(msg + "\n")
Payload(m) == m \o <<NL>>

\* main returning after the farewell
AfterExitReturn == "exited"

\* lines 91, 109-110: after the break, the farewell and select {}
AfterExit == "blocked"

\* a stream: who writes it, the host whose handler reads it, the bytes
\* written and not yet read, the writer's end, the handler's position, its
\* bufio buffer and pending read error, all bytes its reads returned, and
\* what the handler printed
NewStreamRec(writer, host, proto) ==
  [writer |-> writer, host |-> host, proto |-> proto,
   wire |-> <<>>, wst |-> "open",
   hpc |-> IF proto = ChatProtocol THEN "start" ELSE "nohandler",
   rbuf |-> <<>>, rerr |-> "none", arrived |-> <<>>, out |-> <<>>]

\* lines 86-93, 104-109: prompt, read a line, leave on the sentinel,
\* warn when there is no peer target
LoopScan(eof, raw) ==
  /\ pc = "loop"
  /\ scans < MaxScans
  /\ scans' = scans + 1
  /\ stdinEOF' = (stdinEOF \/ eof)
  /\ LET text == ScanText(stdinEOF', raw)
     IN /\ msg' = text
        /\ IF IsExit(text)
           THEN /\ pc' = AfterExit
                /\ console' = Say(<<"prompt", "farewell">>)
           ELSE IF HasPeer(peerInfo)
           THEN /\ pc' = "open"
                /\ console' = Say(<<"prompt">>)
           ELSE /\ pc' = "loop"
                /\ console' = Say(<<"prompt", "nopeer">>)
  /\ streams' = StreamsAt(pc')
  /\ UNCHANGED <<priv, listening, handlers, targetAddr, peerInfo, cur,
                 netlog>>

\* lines 94-98: host.NewStream(ctx, peerInfo.ID, "/chat/1.0.0"); reading
\* peerInfo.ID through a nil pointer panics
OpenStream(ok) ==
  /\ pc = "open"
  /\ ok => Len(streams) < MaxStreams
  /\ IF peerInfo = NoPeer
     THEN /\ pc' = "panicked"
          /\ streams' = StreamsAt(pc')
          /\ UNCHANGED <<cur, netlog, console>>
     ELSE /\ netlog' = Append(netlog, Call("NewStream", 0, peerInfo.ID, ok))
          /\ IF ok
             THEN /\ streams' = Append(streams, NewStreamRec("main", peerInfo.ID, ChatProtocol))
                  /\ cur' = Len(streams) + 1
                  /\ pc' = "write"
                  /\ UNCHANGED console
             ELSE /\ console' = Say(<<"openfail">>)
                  /\ pc' = OnOpenError
                  /\ streams' = StreamsAt(pc')
                  /\ UNCHANGED cur
  /\ UNCHANGED <<priv, listening, handlers, stdinEOF, scans, targetAddr,
                 peerInfo, msg>>

\* a failed write that skips the close
OnWriteErrorContinue == "loop"

\* lines 100-103: a failed write is reported and the stream is closed
OnWriteError == "close"

\* lines 99-102: s.Write([]byte(msg + "\n")); a failed write may have put
\* any part of the data on the stream
WriteStream(ok, n) ==
  /\ pc = "write"
  /\ LET data == Payload(msg)
     IN /\ n \in 0..Len(data)
        /\ ok => n = Len(data)
        /\ netlog' = Append(netlog, Call("Write", cur, data, ok))
        /\ streams' = [streams EXCEPT ![cur].wire = @ \o SubSeq(data, 1, n)]
        /\ console' = IF ok THEN console ELSE Say(<<"sendfail">>)
        /\ pc' = IF ok THEN "close" ELSE OnWriteError
  /\ UNCHANGED <<priv, listening, handlers, stdinEOF, scans, targetAddr,
                 peerInfo, msg, cur>>

\* line 103: s.Close()
CloseStream ==
  /\ pc = "close"
  /\ netlog' = Append(netlog, Call("Close", cur, peerInfo.ID, TRUE))
  /\ streams' = [streams EXCEPT ![cur].wst = "closed"]
  /\ cur' = 0
  /\ pc' = "loop"
  /\ UNCHANGED <<priv, listening, handlers, stdinEOF, scans, targetAddr,
                 peerInfo, msg, console>>

(* ------------------------- inbound streams ----------------------------- *)
\* what a remote peer writes on a stream it opened
InPayloads ==
  { <<"a", NL, NL>> }

\* the host is up and runs its handlers (the peers' hosts always are)
HostUp(h) == h = Self => (listening /\ Alive)

\* a remote peer opens a stream to this host and writes to it: the library
\* starts one handleStream for it when a handler is registered for its
\* protocol, and resets the stream when none is
InboundStream(proto, payload) ==
  /\ listening /\ Alive
  /\ Len(streams) < MaxStreams
  /\ streams' = Append(streams,
       IF proto \in handlers
       THEN [NewStreamRec("remote", Self, proto) EXCEPT !.wire = payload]
       ELSE [NewStreamRec("remote", Self, proto) EXCEPT
               !.hpc = "nohandler", !.wst = "closed"])
  /\ UNCHANGED mainVars

\* the remote writer closes its stream
RemoteClose(i) ==
  /\ i \in 1..Len(streams)
  /\ Alive
  /\ streams[i].writer = "remote"
  /\ streams[i].hpc # "nohandler"
  /\ streams[i].wst = "open"
  /\ streams' = [streams EXCEPT ![i].wst = "closed"]
  /\ UNCHANGED mainVars

(* ---------------------------- handleStream ----------------------------- *)
HasLine(buf) == \E k \in 1..Len(buf) : buf[k] = NL

\* index of the last '\n' of a buffer that has one
LastNL(buf) == CHOOSE k \in 1..Len(buf) :
                 buf[k] = NL /\ \A j \in (k + 1)..Len(buf) : buf[j] # NL

\* index of the first '\n' of a buffer that has one
FirstNL(buf) == CHOOSE k \in 1..Len(buf) :
                  buf[k] = NL /\ \A j \in 1..(k - 1) : buf[j] # NL

\* r.ReadString('\n') on a buffer that holds a line: the line with its
\* '\n', and what stays buffered
ReadString(buf) ==
  [str |-> SubSeq(buf, 1, FirstNL(buf)),
   rest |-> SubSeq(buf, FirstNL(buf) + 1, Len(buf))]

\* handlers of one host run one after the other
ReadingSerial(i) ==
  /\ i \in 1..Len(streams)
  /\ HostUp(streams[i].host)
  /\ streams[i].hpc = "reading"
  /\ \A j \in 1..(i - 1) :
       streams[j].host = streams[i].host => streams[j].hpc # "reading"

\* handlers of one host run in the order their streams were opened
ReadingInOrder(i) ==
  /\ i \in 1..Len(streams)
  /\ HostUp(streams[i].host)
  /\ streams[i].hpc = "reading"
  /\ \A j \in 1..(i - 1) :
       streams[j].host = streams[i].host => streams[j].hpc = "done"

\* lines 21-22: the handler is in its read loop, in a goroutine of its own
Reading(i) ==
  /\ i \in 1..Len(streams)
  /\ HostUp(streams[i].host)
  /\ streams[i].hpc = "reading"

\* lines 19-20: the handler starts
HandleOpen(i) ==
  /\ i \in 1..Len(streams)
  /\ HostUp(streams[i].host)
  /\ streams[i].hpc = "start"
  /\ streams' = [streams EXCEPT ![i].hpc = "reading",
                                ![i].out = Append(@, <<"opened">>)]
  /\ UNCHANGED mainVars

\* line 22, inside ReadString: with no '\n' buffered and no error pending,
\* bufio reads the stream once.  The read returns n bytes and possibly an
\* error: the end of the stream once the writer closed it and all was
\* read, or the reset of a stream by the remote peer that wrote it, which
\* loses what was not read.  An error ends the stream.
Fill(i, n, e) ==
  /\ Reading(i)
  /\ LET s == streams[i]
     IN /\ ~HasLine(s.rbuf)
        /\ s.rerr = "none"
        /\ n \in 0..Len(s.wire)
        /\ e \in {"none", "EOF", "reset"}
        /\ n > 0 \/ e # "none"
        /\ e = "EOF" => (s.wst = "closed" /\ n = Len(s.wire))
        /\ e = "reset" => s.writer = "remote"
        /\ streams' = [streams EXCEPT
             ![i].rbuf = @ \o SubSeq(s.wire, 1, n),
             ![i].arrived = @ \o SubSeq(s.wire, 1, n),
             ![i].wire = IF e = "none" THEN SubSeq(s.wire, n + 1, Len(s.wire))
                         ELSE <<>>,
             ![i].wst = IF e = "none" THEN s.wst ELSE "closed",
             ![i].rerr = e]
  /\ UNCHANGED mainVars

\* a handler that ends on the end of the stream only
ReadFailedOnEOFOnly(e) == e = "EOF"

\* line 23: err != nil, whatever the error
ReadFailed(e) == e # "none"

\* an error branch that still prints what the read returned
OnReadErrorPrintsPartial(partial) ==
  IF partial = <<>> THEN << <<"closed">> >>
  ELSE << <<"received">> \o partial, <<"closed">> >>

\* lines 23-26: on an error only the closed-stream notice is printed
OnReadError(partial) == << <<"closed">> >>

\* lines 22-27: ReadString returns; a line is printed, an error ends the
\* handler and what was read after the last '\n' is dropped
HandleRead(i) ==
  /\ Reading(i)
  /\ LET s == streams[i]
     IN IF HasLine(s.rbuf)
        THEN LET r == ReadString(s.rbuf)
             IN streams' = [streams EXCEPT
                  ![i].out = Append(@, <<"received">> \o r.str),
                  ![i].rbuf = r.rest]
        ELSE /\ ReadFailed(s.rerr)
             /\ streams' = [streams EXCEPT
                  ![i].out = @ \o OnReadError(s.rbuf),
                  ![i].hpc = "done",
                  ![i].rbuf = <<>>]
  /\ UNCHANGED mainVars

(* --------------------------- specification ----------------------------- *)
Main ==
  \/ \E ok \in BOOLEAN : GenerateKey(ok)
  \/ \E ok \in BOOLEAN : NewHost(ok)
  \/ SetStreamHandler
  \/ \E eof \in BOOLEAN, line \in TargetAddrs : ReadTarget(eof, line)
  \/ \E ok \in BOOLEAN : Connect(ok)
  \/ \E eof \in BOOLEAN, raw \in RawLines : LoopScan(eof, raw)
  \/ \E ok \in BOOLEAN : OpenStream(ok)
  \/ \E ok \in BOOLEAN, n \in 0..Len(Payload(msg)) : WriteStream(ok, n)
  \/ CloseStream

Handler(i) ==
  \/ HandleOpen(i)
  \/ \E n \in 0..Len(streams[i].wire), e \in {"none", "EOF", "reset"} :
       Fill(i, n, e)
  \/ HandleRead(i)

Remote ==
  \/ \E proto \in Protocols, payload \in InPayloads :
       InboundStream(proto, payload)
  \/ \E i \in 1..Len(streams) : RemoteClose(i)

Next ==
  \/ Main
  \/ \E i \in 1..Len(streams) : Handler(i)
  \/ Remote

Spec == Init /\ [][Next]_vars

\* the read that finds the end of stream i: all that is left, with io.EOF
FillEOF(i) ==
  /\ i \in 1..Len(streams)
  /\ Fill(i, Len(streams[i].wire), "EOF")

\* the goroutine of every handler is scheduled again and again, and a read
\* of a stream whose writer closed it returns what is left with the end of
\* the stream
FairSpec ==
  /\ Spec
  /\ \A i \in 1..MaxStreams :
       /\ WF_vars(HandleOpen(i))
       /\ WF_vars(HandleRead(i))
       /\ WF_vars(FillEOF(i))

(* ------------------------------ claims --------------------------------- *)
Last(seq) == seq[Len(seq)]

LoopScanAny == \E eof \in BOOLEAN, raw \in RawLines : LoopScan(eof, raw)

\* a step of the chat loop that reads a line
ScanStep == pc = "loop" /\ scans' = scans + 1

\* the line is the word "exit" between any number of white-space characters
ExitForm(line) ==
  \E i \in 1..Len(line) :
    /\ line[i] = "exit"
    /\ \A k \in 1..Len(line) : k # i => line[k] \in Space

\* C1: with no peer target, a line that is not the exit sentinel causes no
\* call of the networking library and no stream, main does not panic on
\* the nil target, prints only the prompt and the "no peer connected"
\* warning, and is back at the top of the loop
C1_NoPeerNoNetworkAction ==
  [][(ScanStep /\ peerInfo = NoPeer /\ ~ExitForm(msg'))
       => /\ pc' = "loop"
          /\ netlog' = netlog
          /\ streams' = streams
          /\ cur' = cur
          /\ peerInfo' = NoPeer
          /\ console' = console \o <<"prompt", "nopeer">>]_vars

C1_Witness ==
  /\ pc = "loop"
  /\ peerInfo = NoPeer
  /\ scans = 2
  /\ msg = <<"EXIT">>
  /\ Last(console) = "nopeer"
  /\ \A k \in 1..Len(netlog) : netlog[k].op \notin {"NewStream", "Write"}

\* C2: a line read by the chat loop ends the loop exactly when it is "exit"
\* between white space; any other line is a message: with a peer target
\* the loop goes on to open a stream for it, without one it warns; and no
\* line of the exit form is ever written to a stream
C2_ExitIffTrimmedSentinel ==
  /\ [][ScanStep
          => /\ (pc' = "blocked") <=> ExitForm(msg')
             /\ (~ExitForm(msg') /\ peerInfo # NoPeer) => pc' = "open"
             /\ (~ExitForm(msg') /\ peerInfo = NoPeer)
                  => (pc' = "loop" /\ Last(console') = "nopeer")]_vars
  /\ [](\A k \in 1..Len(netlog) :
          netlog[k].op = "Write"
            => /\ Len(netlog[k].arg) > 0
               /\ ~ExitForm(SubSeq(netlog[k].arg, 1, Len(netlog[k].arg) - 1)))

C2_Witness ==
  /\ pc = "blocked"
  /\ msg = <<" ", "exit", "\t">>
  /\ \E k \in 1..Len(netlog) :
       /\ netlog[k].op = "Write"
       /\ netlog[k].arg = <<"EXIT", NL>>

\* the calls of the log with the given name
CallsOf(op) == {k \in 1..Len(netlog) : netlog[k].op = op}

\* what a handler printed as received, in order
RECURSIVE Received(_)
Received(out) ==
  IF out = <<>> THEN <<>>
  ELSE IF Head(out)[1] = "received"
       THEN <<Tail(Head(out))>> \o Received(Tail(out))
       ELSE Received(Tail(out))

\* C3: a line m whose send succeeded (stream opened under /chat/1.0.0 to
\* the connected peer, m and one newline written, stream closed) reaches
\* the peer's handler as exactly m followed by '\n' in its first
\* ReadString; the next read finds the end of the stream, so the handler
\* reports exactly one message for the stream
C3_EndToEndDelivery ==
  /\ [][pc = "write" /\ pc' = "close"
          => /\ Last(netlog').op = "Write"
             /\ Last(netlog').s = cur
             /\ Last(netlog').ok => Last(netlog').arg = msg \o <<NL>>]_vars
  /\ [](\A k \in CallsOf("Write") :
          LET w == netlog[k]
              st == streams[w.s]
              closed == \E c \in CallsOf("Close") : netlog[c].s = w.s
          IN (w.ok /\ closed)
               => /\ st.proto = "/chat/1.0.0"
                  /\ st.host = peerInfo.ID
                  /\ \E j \in CallsOf("Connect") :
                       netlog[j].ok /\ netlog[j].arg = st.host
                  /\ st.arrived \o st.wire = w.arg
                  /\ st.rerr \in {"none", "EOF"}
                  /\ Len(Received(st.out)) <= 1
                  /\ Len(st.out) >= 2
                       => st.out[2] = <<"received">> \o w.arg
                  /\ st.hpc = "done"
                       => /\ st.out = << <<"opened">>,
                                         <<"received">> \o w.arg,
                                         <<"closed">> >>
                          /\ st.rerr = "EOF")

C3_Witness ==
  \E k \in CallsOf("Write") :
    /\ netlog[k].ok
    /\ netlog[k].arg = <<"exit", " ", "now", NL>>
    /\ streams[netlog[k].s].hpc = "done"
    /\ Received(streams[netlog[k].s].out) = <<netlog[k].arg>>

InLoop == pc \in {"loop", "open", "write", "close"}

\* C4: a send that fails does not end the loop: after a failed NewStream
\* or a failed Write main prints the error, keeps its peer target, comes
\* back to the top of the loop without leaving it, and can read the next
\* line there
C4_FailedSendNotFatal ==
  /\ [][(pc = "open" /\ pc' # "open" /\ pc' # "write")
          => /\ pc' = "loop"
             /\ Last(netlog').op = "NewStream" /\ ~Last(netlog').ok
             /\ console' = Append(console, "openfail")
             /\ peerInfo' = peerInfo /\ peerInfo # NoPeer]_vars
  /\ [][(pc = "write" /\ pc' # "write" /\ ~Last(netlog').ok)
          => /\ pc' = "close"
             /\ console' = Append(console, "sendfail")
             /\ peerInfo' = peerInfo /\ peerInfo # NoPeer]_vars
  /\ [][(pc = "close" /\ pc' # "close")
          => (pc' = "loop" /\ peerInfo' = peerInfo /\ console' = console)]_vars
  /\ []((pc = "loop" /\ scans < MaxScans) => ENABLED LoopScanAny)

C4_Witness ==
  /\ pc = "open"
  /\ peerInfo.ID = "B"
  /\ scans = 2
  /\ Len(netlog) >= 2
  /\ \/ Last(netlog).op = "NewStream" /\ ~Last(netlog).ok
     \/ /\ Last(netlog).op = "Close"
        /\ netlog[Len(netlog) - 1].op = "Write"
        /\ ~netlog[Len(netlog) - 1].ok

\* the target line is not empty and is no address that names a peer
BadTarget ==
  /\ pc \notin {"genkey", "newhost", "sethandler", "target", "panicked"}
  /\ targetAddr # <<>>
  /\ \/ NewMultiaddr(targetAddr).err
     \/ AddrInfoFromP2pAddr(NewMultiaddr(targetAddr).maddr).err

\* C5: after a target line that is not a valid address, or that names no
\* peer, main has reported the error and returned: no peer target is
\* kept, no connection was attempted, the chat loop read no line and no
\* stream was opened by main
C5_BadAddressAborts ==
  BadTarget
    => /\ pc = "exited"
       /\ peerInfo = NoPeer
       /\ Last(console) \in {"invalid", "parsefail"}
       /\ CallsOf("Connect") = {}
       /\ CallsOf("NewStream") = {}
       /\ scans = 0
       /\ \A i \in 1..Len(streams) : streams[i].writer # "main"

C5_Witness ==
  /\ BadTarget
  /\ targetAddr = <<"", "ip4", "127.0.0.1", "tcp", "1234">>
  /\ Last(console) = "parsefail"

\* C6: a failed connection is reported and ends main before the chat
\* loop; main opens a stream to a peer only after it connected to that
\* very peer, and the loop runs with a peer target only when the
\* connection to it succeeded
C6_ConnectionGatesSession ==
  /\ \A k \in CallsOf("Connect") :
       ~netlog[k].ok
         => /\ pc = "exited"
            /\ k = Len(netlog)
            /\ Last(console) = "connfail"
            /\ scans = 0
  /\ \A k \in CallsOf("NewStream") :
       \E j \in CallsOf("Connect") :
         j < k /\ netlog[j].ok /\ netlog[j].arg = netlog[k].arg
  /\ \A i \in 1..Len(streams) :
       streams[i].writer = "main"
         => \E j \in CallsOf("Connect") :
              netlog[j].ok /\ netlog[j].arg = streams[i].host
  /\ ((InLoop \/ pc = "blocked") /\ peerInfo # NoPeer)
       => \E j \in CallsOf("Connect") :
            netlog[j].ok /\ netlog[j].arg = peerInfo.ID

C6_Witness ==
  /\ pc = "exited"
  /\ peerInfo.ID = "B"
  /\ Last(netlog) = Call("Connect", 0, "B", FALSE)
  /\ Last(console) = "connfail"

\* C7: target selection runs once, before the loop: main never comes back
\* to the target prompt, parses and connects at most once, and from the
\* first prompt of the loop on neither the target line nor the peer
\* target changes, whatever is read and however the send ends
C7_TargetFixedBeforeLoop ==
  /\ [][(InLoop \/ pc = "blocked")
          => /\ peerInfo' = peerInfo
             /\ targetAddr' = targetAddr
             /\ (InLoop' \/ pc' = "blocked")]_vars
  /\ [][pc' = "target" => pc \in {"sethandler", "target"}]_vars
  /\ [](/\ Cardinality(CallsOf("NewMultiaddr")) <= 1
        /\ Cardinality(CallsOf("AddrInfoFromP2pAddr")) <= 1
        /\ Cardinality(CallsOf("Connect")) <= 1)

C7_Witness ==
  /\ pc = "loop"
  /\ scans = 2
  /\ peerInfo.ID = "B"
  /\ \E k \in CallsOf("NewStream") : ~netlog[k].ok
  /\ \E k \in CallsOf("Write") : netlog[k].ok

\* an inbound stream is handed to a handler of its own
Dispatched(i) ==
  /\ i \in 1..Len(streams)
  /\ streams[i].host = Self
  /\ streams[i].proto = "/chat/1.0.0"

\* every step the handler of stream i is ready to take can be taken
HandlerFree(i) ==
  LET s == streams[i]
  IN /\ s.hpc = "start" => ENABLED HandleOpen(i)
     /\ (s.hpc = "reading" /\ (HasLine(s.rbuf) \/ s.rerr # "none"))
          => ENABLED HandleRead(i)
     /\ (s.hpc = "reading" /\ ~HasLine(s.rbuf) /\ s.rerr = "none"
           /\ s.wire # <<>>)
          => ENABLED Fill(i, 1, "none")

\* C8: on the exit line main prints the farewell and parks; from then on
\* nothing of main changes (no line is read, no library call is made, the
\* process does not end), while a chat stream that arrives is still given
\* to a handler and the handlers still run and print
C8_BlocksForeverAfterExit ==
  /\ [][(ScanStep /\ ExitForm(msg'))
          => /\ pc' = "blocked"
             /\ console' = console \o <<"prompt", "farewell">>]_vars
  /\ [][pc = "blocked" => UNCHANGED mainVars]_vars
  /\ [][(pc = "blocked" /\ Len(streams') = Len(streams) + 1
           /\ Last(streams').proto = "/chat/1.0.0")
          => (Last(streams').host = Self /\ Last(streams').hpc = "start")]_vars
  /\ [](pc = "blocked"
          => /\ Len(streams) < MaxStreams
                  => ENABLED InboundStream("/chat/1.0.0", <<"a", NL, NL>>)
             /\ \A i \in 1..Len(streams) : Dispatched(i) => HandlerFree(i))

C8_Witness ==
  /\ pc = "blocked"
  /\ Last(console) = "farewell"
  /\ \E i \in 1..Len(streams) :
       /\ Dispatched(i)
       /\ streams[i].hpc = "reading"
       /\ Received(streams[i].out) = << <<"a", NL>> >>
       /\ HasLine(streams[i].rbuf)

\* the handler of stream i waits for bytes that have not come
Waiting(i) ==
  /\ streams[i].hpc = "reading"
  /\ ~HasLine(streams[i].rbuf)
  /\ streams[i].rerr = "none"
  /\ streams[i].wire = <<>>
  /\ streams[i].wst = "open"

\* the handler of stream i took a step
HandlerStep(i) ==
  /\ i \in 1..Len(streams)
  /\ Len(streams') = Len(streams)
  /\ \/ streams'[i].hpc # streams[i].hpc
     \/ streams'[i].out # streams[i].out
     \/ streams'[i].rbuf # streams[i].rbuf

\* C9: whatever the handlers do, and also while some wait for a line,
\* main can take its next step (read a line, leave on exit, open, write,
\* close) and every other handler can take its own; a step of a handler
\* changes its own stream only, nothing of main nor of another handler
C9_HandlersBlockNobody ==
  /\ [](/\ (pc = "loop" /\ scans < MaxScans)
             => /\ ENABLED LoopScan(FALSE, <<"exit">>)
                /\ ENABLED LoopScan(FALSE, <<"EXIT">>)
        /\ pc = "open" => ENABLED OpenStream(FALSE)
        /\ (pc = "open" /\ Len(streams) < MaxStreams)
             => ENABLED OpenStream(TRUE)
        /\ pc = "write" => ENABLED WriteStream(TRUE, Len(msg) + 1)
        /\ pc = "close" => ENABLED CloseStream
        /\ \A i \in 1..Len(streams) :
             (streams[i].host = Self => (listening /\ Alive))
               => HandlerFree(i))
  /\ [][\A i \in 1..Len(streams) :
          HandlerStep(i)
            => /\ UNCHANGED mainVars
               /\ \A j \in 1..Len(streams) :
                    j # i => streams'[j] = streams[j]]_vars

C9_Witness ==
  /\ pc = "open"
  /\ Len(streams) = 2
  /\ Dispatched(1) /\ Dispatched(2)
  /\ Waiting(1)
  /\ streams[2].hpc = "done"
  /\ Received(streams[2].out) # <<>>

\* the complete lines of a byte sequence, each with its '\n', in order
RECURSIVE Lines(_)
Lines(buf) ==
  IF \A k \in 1..Len(buf) : buf[k] # NL THEN <<>>
  ELSE LET nl == {k \in 1..Len(buf) : buf[k] = NL}
           k == CHOOSE m \in nl : \A o \in nl : m <= o
       IN <<SubSeq(buf, 1, k)>> \o Lines(SubSeq(buf, k + 1, Len(buf)))

\* C10: what a handler printed as received is, line for line and in
\* order, the complete lines of the bytes its reads returned: never more
\* than those, all of them once they are neither buffered any more nor
\* the handler still running, and each printed with its newline
C10_PrintsEachLineInOrder ==
  \A i \in 1..Len(streams) :
    LET s == streams[i]
        got == Received(s.out)
        all == Lines(s.arrived)
    IN /\ Len(got) <= Len(all)
       /\ got = SubSeq(all, 1, Len(got))
       /\ s.hpc = "reading" => all = got \o Lines(s.rbuf)
       /\ s.hpc = "done" => got = all
       /\ s.hpc \in {"start", "nohandler"} => s.out = <<>>
       /\ \A k \in 1..Len(s.out) :
            s.out[k][1] \in {"opened", "received", "closed"}

C10_Witness ==
  \E i \in 1..Len(streams) :
    /\ Dispatched(i)
    /\ streams[i].hpc = "done"
    /\ streams[i].out = << <<"opened">>, <<"received", "a", NL>>,
                           <<"received", NL>>, <<"closed">> >>

\* the closed-stream notices a handler printed
Notices(out) == {k \in 1..Len(out) : out[k] = <<"closed">>}

\* the handler of stream i runs and its stream has ended: the writer closed
\* it, or a read already failed
Ended(i) ==
  /\ i \in 1..Len(streams)
  /\ streams[i].hpc \in {"start", "reading"}
  /\ streams[i].wst = "closed" \/ streams[i].rerr # "none"

\* the handler of stream i returned, or the process is gone
Returned(i) ==
  \/ ~Alive
  \/ i \in 1..Len(streams) /\ streams[i].hpc = "done"

\* C11: a handler ends on the first read error of its stream, whatever the
\* error: once a read failed no further read is made, the read that
\* returns the error prints the closed-stream notice and ends the handler
\* the same way for the end of the stream and for a reset, the notice is
\* printed exactly once and last, a handler that returned does nothing
\* more, and a handler whose stream has ended eventually returns
C11_HandlerEndsOnReadError ==
  /\ [](\A i \in 1..Len(streams) :
          LET s == streams[i]
          IN /\ Cardinality(Notices(s.out)) <= 1
             /\ s.hpc = "done"
                  <=> (s.out # <<>> /\ Last(s.out) = <<"closed">>)
             /\ s.hpc = "done" => s.rerr \in {"EOF", "reset"}
             /\ (s.hpc = "reading" /\ s.rerr # "none" /\ HostUp(s.host))
                  => /\ ENABLED HandleRead(i)
                     /\ \A e \in {"none", "EOF", "reset"} :
                          ~ENABLED Fill(i, 0, e))
  /\ [][\A i \in 1..Len(streams) :
          (Len(streams') >= i /\ streams[i].rerr # "none")
            => /\ streams'[i].arrived = streams[i].arrived
               /\ streams'[i].rerr = streams[i].rerr
               /\ (streams'[i] # streams[i] /\ ~HasLine(streams[i].rbuf))
                    => /\ streams'[i].hpc = "done"
                       /\ streams'[i].out
                            = Append(streams[i].out, <<"closed">>)]_vars
  /\ [][\A i \in 1..Len(streams) :
          (Len(streams') >= i /\ streams[i].hpc = "done")
            => streams'[i] = streams[i]]_vars
  /\ \A i \in 1..MaxStreams : Ended(i) ~> Returned(i)

C11_Witness ==
  /\ Len(streams) = 2
  /\ streams[1].hpc = "done" /\ streams[2].hpc = "done"
  /\ streams[1].rerr = "reset" /\ streams[2].rerr = "EOF"
  /\ Cardinality(Notices(streams[1].out)) = 1
  /\ Cardinality(Notices(streams[2].out)) = 1

\* the host accepts an inbound stream of the chat protocol
AcceptsChat ==
  listening /\ Alive /\ ENABLED InboundStream(ChatProtocol, <<"a", NL, NL>>)

\* C12: the chat handler is registered before any connection is accepted:
\* in no state does the host accept an inbound connection or stream while
\* no handler is registered for /chat/1.0.0, so no inbound chat stream is
\* ever left without a handler
C12_RegisteredBeforeAccepting ==
  /\ AcceptsChat => ChatProtocol \in handlers
  /\ \A i \in 1..Len(streams) :
       (streams[i].host = Self /\ streams[i].proto = ChatProtocol)
         => streams[i].hpc # "nohandler"

\* the target line was read and it was empty
NoTarget ==
  /\ \E k \in 1..Len(console) : console[k] = "asktarget"
  /\ targetAddr = <<>>

\* C13: when the target line is empty nothing is parsed and no connection
\* is attempted, main enters the chat loop without a peer target, and for
\* the rest of the run it makes no call of the networking library and
\* opens no stream: every stream of the run is an inbound one, and inbound
\* streams are still accepted
C13_NoTargetOnlyInbound ==
  /\ [][(pc = "target" /\ pc' # "target" /\ targetAddr' = <<>>)
          => /\ pc' = "loop"
             /\ peerInfo' = NoPeer
             /\ netlog' = netlog
             /\ streams' = streams]_vars
  /\ [](NoTarget
          => /\ pc \in {"loop", "blocked"}
             /\ peerInfo = NoPeer
             /\ netlog = <<>>
             /\ cur = 0
             /\ \A i \in 1..Len(streams) :
                  streams[i].writer = "remote" /\ streams[i].host = Self
             /\ Len(streams) < MaxStreams
                  => ENABLED InboundStream(ChatProtocol, <<"a", NL, NL>>))

C13_Witness ==
  /\ NoTarget
  /\ pc = "blocked"
  /\ scans = 2
  /\ console = <<"started", "asktarget", "prompt", "nopeer",
                 "prompt", "farewell">>
  /\ Len(streams) = 2
  /\ Received(streams[2].out) = << <<"a", NL>>, <<NL>> >>

\* the calls of the log with the given name made on stream j
CallsOn(op, j) == {k \in CallsOf(op) : netlog[k].s = j}

\* the streams main opened
Outbound == {i \in 1..Len(streams) : streams[i].writer = "main"}

\* 1 when main is at position p, else 0
At(p) == IF pc = p THEN 1 ELSE 0

\* C14: in the connected state every line that is not the exit line gets
\* exactly one NewStream and no retry; a stream that was opened gets
\* exactly one Write, of the line and a newline, and then exactly one
\* Close, also when the write failed; so at every prompt no stream of
\* main is open, at most one is open at any time (the current one), and
\* the streams are opened in the order of the lines
C14_OneStreamPerLine ==
  /\ [][(ScanStep /\ peerInfo # NoPeer /\ ~ExitForm(msg'))
          => (pc' = "open" /\ netlog' = netlog /\ streams' = streams)]_vars
  /\ [][(pc = "open" /\ pc' # "open")
          => /\ netlog' = Append(netlog, Last(netlog'))
             /\ Last(netlog').op = "NewStream"
             /\ Last(netlog').arg = peerInfo.ID
             /\ IF Last(netlog').ok
                THEN /\ pc' = "write"
                     /\ Len(streams') = Len(streams) + 1
                     /\ cur' = Len(streams')
                     /\ Last(streams').writer = "main"
                     /\ Last(streams').wst = "open"
                ELSE pc' = "loop" /\ streams' = streams]_vars
  /\ [][(pc = "write" /\ pc' # "write")
          => /\ netlog' = Append(netlog, Call("Write", cur, msg \o <<NL>>,
                                              Last(netlog').ok))
             /\ pc' = "close"]_vars
  /\ [][(pc = "close" /\ pc' # "close")
          => /\ netlog' = Append(netlog, Last(netlog'))
             /\ Last(netlog').op = "Close" /\ Last(netlog').s = cur
             /\ streams'[cur].wst = "closed"
             /\ pc' = "loop"]_vars
  /\ [][(InLoop /\ ~ScanStep) => msg' = msg]_vars
  /\ []((InLoop \/ pc = "blocked") /\ peerInfo # NoPeer
          => /\ Cardinality(CallsOf("NewStream"))
                  = scans - At("open") - At("blocked")
             /\ Cardinality({k \in CallsOf("NewStream") : netlog[k].ok})
                  = Cardinality(Outbound)
             /\ Cardinality(CallsOf("Write"))
                  = Cardinality(Outbound) - At("write")
             /\ Cardinality(CallsOf("Close"))
                  = Cardinality(CallsOf("Write")) - At("close")
             /\ \A j \in Outbound :
                  /\ Cardinality(CallsOn("Write", j)) <= 1
                  /\ Cardinality(CallsOn("Close", j)) <= 1
                  /\ \A c \in CallsOn("Close", j) :
                       \E w \in CallsOn("Write", j) : w < c
                  /\ streams[j].wst = "open"
                       <=> (j = cur /\ pc \in {"write", "close"})
                  /\ streams[j].wst = "closed"
                       <=> CallsOn("Close", j) # {}
             /\ pc \in {"loop", "open", "blocked"}
                  => \A j \in Outbound : streams[j].wst = "closed"
             /\ Cardinality({j \in Outbound : streams[j].wst = "open"}) <= 1
             /\ \A j1, j2 \in Outbound :
                  \A w1 \in CallsOn("Write", j1), w2 \in CallsOn("Write", j2) :
                    j1 < j2 => w1 < w2)

C14_Witness ==
  /\ pc = "loop"
  /\ scans = 2
  /\ Outbound = {1, 2}
  /\ Len(netlog) = 9
  /\ netlog[5] = Call("Write", 1, <<"EXIT", NL>>, FALSE)
  /\ netlog[6].op = "Close"
  /\ netlog[8] = Call("Write", 2, <<NL>>, TRUE)
  /\ netlog[9].op = "Close"

\* the handler of stream i is about to print a received line
AboutToPrint(i) ==
  /\ streams[i].hpc = "reading"
  /\ HasLine(streams[i].rbuf)

\* C15: no order across streams: main closes the stream of one message
\* before it opens the stream of the next, yet the handler of the later
\* stream never waits for the handler of an earlier one: it can read and
\* print its message while the earlier message has not been printed (the
\* witness is an execution in which the later message is printed first)
C15_NoOrderAcrossStreams ==
  /\ [][(pc = "open" /\ pc' = "write")
          => \A j \in Outbound :
               streams[j].wst = "closed" /\ CallsOn("Close", j) # {}]_vars
  /\ [](\A j1, j2 \in Outbound :
          (j1 < j2 /\ Received(streams[j1].out) = <<>>)
            => /\ \A c \in CallsOn("Close", j1), w \in CallsOn("Write", j2) :
                    c < w
               /\ AboutToPrint(j2) => ENABLED HandleRead(j2)
               /\ (streams[j2].hpc = "reading" /\ ~HasLine(streams[j2].rbuf)
                     /\ streams[j2].rerr = "none" /\ streams[j2].wire # <<>>)
                    => ENABLED Fill(j2, Len(streams[j2].wire), "none")
               /\ streams[j2].hpc = "start" => ENABLED HandleOpen(j2))

C15_Witness ==
  /\ Outbound = {1, 2}
  /\ streams[1].host = streams[2].host
  /\ \A j \in {1, 2} : \E w \in CallsOn("Write", j) : netlog[w].ok
  /\ Received(streams[2].out) = << <<"exit", " ", "now", NL>> >>
  /\ streams[1].hpc = "start"
  /\ streams[1].wire = <<"EXIT", NL>>

\* C16: the end of standard input does not end the chat loop: once input
\* has ended it stays ended, every further iteration reads the empty
\* line, which with a peer target opens a stream and writes the empty
\* message (a lone newline) and without one prints the warning; main
\* never leaves the loop, never prints the farewell, and can always start
\* the next iteration
C16_EndOfInputDoesNotEndLoop ==
  /\ [][stdinEOF => stdinEOF']_vars
  /\ [][(ScanStep /\ stdinEOF')
          => /\ msg' = <<>>
             /\ peerInfo # NoPeer
                  => (pc' = "open" /\ console' = Append(console, "prompt"))
             /\ peerInfo = NoPeer
                  => /\ pc' = "loop"
                     /\ console' = console \o <<"prompt", "nopeer">>
                     /\ netlog' = netlog]_vars
  /\ [][(stdinEOF /\ pc = "write" /\ pc' # "write")
          => (Last(netlog').op = "Write" /\ Last(netlog').arg = <<NL>>)]_vars
  /\ [](stdinEOF
          => /\ InLoop
             /\ \A k \in 1..Len(console) : console[k] # "farewell"
             /\ (pc = "loop" /\ scans < MaxScans)
                  => ENABLED LoopScan(TRUE, <<"exit">>))

C16_Witness ==
  /\ stdinEOF
  /\ pc = "loop"
  /\ scans = 2
  /\ peerInfo.ID = "B"
  /\ Cardinality({k \in CallsOf("Write") :
                    netlog[k].ok /\ netlog[k].arg = <<NL>>}) = 2
  /\ Cardinality(CallsOf("Close")) = 2

\* what a byte sequence holds after its last '\n'
AfterLastNL(buf) ==
  IF HasLine(buf) THEN SubSeq(buf, LastNL(buf) + 1, Len(buf)) ELSE buf

\* C17: the bytes a read returned after the last newline are never
\* printed: the read that returns them with an error (the end of the
\* stream or another one) makes the handler drop them, print the
\* closed-stream notice only and return, so every received message a
\* handler prints ends with its newline and holds no other
C17_PartialLineDiscarded ==
  /\ [][\A i \in 1..Len(streams) :
          (Len(streams') >= i /\ streams[i].hpc = "reading"
             /\ streams'[i].hpc = "done")
            => /\ streams[i].rbuf = AfterLastNL(streams[i].arrived)
               /\ streams[i].rerr \in {"EOF", "reset"}
               /\ streams'[i].out = Append(streams[i].out, <<"closed">>)
               /\ Received(streams'[i].out) = Received(streams[i].out)
               /\ streams'[i].rbuf = <<>>]_vars
  /\ [](\A i \in 1..Len(streams) :
          LET s == streams[i]
          IN /\ \A k \in 1..Len(s.out) :
                  s.out[k][1] = "received"
                    => /\ Len(s.out[k]) >= 2
                       /\ Last(s.out[k]) = NL
                       /\ \A j \in 2..(Len(s.out[k]) - 1) : s.out[k][j] # NL
             /\ s.hpc = "done"
                  => /\ Len(s.out) = Len(Lines(s.arrived)) + 2
                     /\ AfterLastNL(s.arrived) # <<>>
                          => \A k \in 1..Len(s.out) :
                               s.out[k] # <<"received">>
                                            \o AfterLastNL(s.arrived))

C17_Witness ==
  \E i \in Outbound :
    /\ streams[i].hpc = "done"
    /\ streams[i].arrived = <<"exit", " ">>
    /\ streams[i].rerr = "EOF"
    /\ streams[i].out = << <<"opened">>, <<"closed">> >>
    /\ \E w \in CallsOn("Write", i) : ~netlog[w].ok

====
